---- MODULE Spec2Model ----
(***************************************************************************)
(* Mapped_Data_Reviewer: a Streamlit page (app.py, main) over a session    *)
(* state {current_data, reviewed_items}, and the library classes it ships  *)
(* with (data_manager.py DataManager, utils.py).                           *)
(*                                                                         *)
(* Scores are counted in thousandths (0.5 is 500, the slider step 0.001 is *)
(* 1).  A row identifier is the row's pandas index label: 0-based position *)
(* in the table read by pd.read_csv.  A view (filtered_df) is the sequence *)
(* of the identifiers of its rows, in order.  Text is a sequence of        *)
(* one-character strings.                                                  *)
(***************************************************************************)
EXTENDS Integers, Sequences, FiniteSets, TLC

(***************************************************************************)
(* Bounds of the model.                                                    *)
(***************************************************************************)
MaxRows == 3
MaxPageRows == 101
MaxViewRows == 11

(***************************************************************************)
(* Values.                                                                 *)
(***************************************************************************)
\* float('nan'): a missing score (an empty cell, or a cell that
\* pd.to_numeric(errors='coerce') could not convert).
NaN == -1
\* a score cell holding text that is not a number
BadText == -2
\* the fallback score DataManager.load_data gives a table without a score column
FallbackScore == 500
\* the score range of a table without a score column: (0.0, 1.0)
NoScoreRange == <<0, 1000>>
\* app.py: if score_min == score_max: score_max = score_min + 0.01
SliderWiden == 10
\* st.selectbox("Items per page", [10, 25, 50, 100], index=1)
PageSizes == <<10, 25, 50, 100>>
DefaultPageSize == PageSizes[2]

EN == <<"E", "N">>
FR == <<"F", "R">>
Q1 == <<"Q", "1">>
Q2 == <<"Q", "2">>
NA == <<"N", "/", "A">>

Min2(a, b) == IF a <= b THEN a ELSE b
Max2(a, b) == IF a >= b THEN a ELSE b
Range(s) == {s[i] : i \in 1..Len(s)}

(***************************************************************************)
(* Text.                                                                   *)
(***************************************************************************)
Digits == <<"0", "1", "2", "3", "4", "5", "6", "7", "8", "9">>
Digit(d) == Digits[d + 1]

\* str.lower on the letters the model's cells use
Lower(c) ==
    CASE c = "E" -> "e" [] c = "N" -> "n" [] c = "F" -> "f" [] c = "R" -> "r"
      [] c = "Q" -> "q" [] c = "A" -> "a" [] OTHER -> c

\* the decimal digits of a natural number
RECURSIVE NatStr(_)
NatStr(n) == IF n < 10 THEN <<Digit(n)>> ELSE NatStr(n \div 10) \o <<Digit(n % 10)>>

\* str(float): "0.3", "0.5", "1.0", "nan" (the score column is float64 after
\* pd.to_numeric whenever the model's tables have it)
FloatStr(v) ==
    IF v = NaN THEN <<"n", "a", "n">>
    ELSE LET f == v % 1000
             frac == IF f % 100 = 0 THEN <<Digit(f \div 100)>>
                     ELSE IF f % 10 = 0 THEN <<Digit(f \div 100), Digit((f \div 10) % 10)>>
                     ELSE <<Digit(f \div 100), Digit((f \div 10) % 10), Digit(f % 10)>>
         IN  NatStr(v \div 1000) \o <<".">> \o frac

\* str(bool): "True", "False"
BoolStr(b) == IF b THEN <<"T", "r", "u", "e">> ELSE <<"F", "a", "l", "s", "e">>

\* f"{v:.3f}" of a score counted in thousandths
Fixed3(v) ==
    LET f == v % 1000
    IN  NatStr(v \div 1000) \o <<".">> \o <<Digit(f \div 100), Digit((f \div 10) % 10), Digit(f % 10)>>

\* Series.str.contains(term, case=False, na=False) on one cell: term occurs
\* in the cell's text, letter case ignored
Contains(str, term) ==
    \E k \in 0..(Len(str) - Len(term)) :
        \A j \in 1..Len(term) : Lower(str[k + j]) = Lower(term[j])

(***************************************************************************)
(* Tables.  A file is what the uploader holds; a table is what pd.read_csv *)
(* made of it: the column names in order and the rows.  A row keeps a      *)
(* score field also when the table has no score column (then NaN, and      *)
(* never read).                                                            *)
(***************************************************************************)
NoFile == [kind |-> "none", columns |-> <<>>, rows |-> <<>>]
BadFile == [kind |-> "bad", columns |-> <<>>, rows |-> <<>>]

RowPool ==
    << [language |-> EN, qualification_name |-> Q1, score |-> 300],
       [language |-> FR, qualification_name |-> Q2, score |-> 900],
       [language |-> EN, qualification_name |-> Q2, score |-> BadText],
       [language |-> FR, qualification_name |-> Q1, score |-> 300] >>

ScoredColumns == <<"language", "qualification_name", "score">>
UnscoredColumns == <<"language", "qualification_name">>

\* the table of n rows that starts at row k of the pool and cycles through it
SampleFile(k, n, scored) ==
    [kind |-> "csv",
     columns |-> IF scored THEN ScoredColumns ELSE UnscoredColumns,
     rows |-> [i \in 1..n |->
                 LET r == RowPool[((k + i - 1) % Len(RowPool)) + 1]
                 IN  IF scored THEN r ELSE [r EXCEPT !.score = NaN]]]

\* a file that already has a column named reviewed_status (read as bool)
StatusColumns == <<"language", "qualification_name", "score", "reviewed_status">>
StatusFile ==
    [kind |-> "csv", columns |-> StatusColumns,
     rows |-> << [language |-> EN, qualification_name |-> Q1, score |-> 300,
                  reviewed_status |-> TRUE] >>]

HasCol(df, c) == c \in Range(df.columns)

\* pd.to_numeric(cell, errors='coerce')
ToNumeric(c) == IF c = BadText THEN NaN ELSE c

\* df = current_data.copy(); df['score'] = pd.to_numeric(df['score'], errors='coerce')
Coerce(df) ==
    IF HasCol(df, "score")
    THEN [df EXCEPT !.rows = [i \in 1..Len(df.rows) |->
                                [df.rows[i] EXCEPT !.score = ToNumeric(@)]]]
    ELSE df

\* df.index of a freshly read table: RangeIndex(0, n)
Index(df) == [i \in 1..Len(df.rows) |-> i - 1]
Row(df, id) == df.rows[id + 1]

\* Series.unique().tolist(): the distinct values in order of first appearance
Unique(s) ==
    LET firsts == SelectSeq([i \in 1..Len(s) |-> i],
                            LAMBDA i : \A j \in 1..(i - 1) : s[j] # s[i])
    IN  [k \in 1..Len(firsts) |-> s[firsts[k]]]

Languages(df) ==
    IF HasCol(df, "language")
    THEN Unique([i \in 1..Len(df.rows) |-> df.rows[i].language]) ELSE <<>>
Qualifications(df) ==
    IF HasCol(df, "qualification_name")
    THEN Unique([i \in 1..Len(df.rows) |-> df.rows[i].qualification_name]) ELSE <<>>

\* the non-missing scores of the (coerced) table
Scores(df) == {df.rows[i].score : i \in 1..Len(df.rows)} \ {NaN}
\* float(df['score'].min()), float(df['score'].max()): NaN skipped, NaN when
\* nothing is left
ScoreMin(df) ==
    IF Scores(df) = {} THEN NaN ELSE CHOOSE m \in Scores(df) : \A s \in Scores(df) : m <= s
ScoreMax(df) ==
    IF Scores(df) = {} THEN NaN ELSE CHOOSE m \in Scores(df) : \A s \in Scores(df) : m >= s

\* the slider's (min_value, max_value)
SliderBounds(df) ==
    IF ~HasCol(df, "score") THEN NoScoreRange
    ELSE IF ScoreMin(df) # NaN /\ ScoreMin(df) = ScoreMax(df)
         THEN <<ScoreMin(df), ScoreMin(df) + SliderWiden>>
         ELSE <<ScoreMin(df), ScoreMax(df)>>

\* the upper end left out
InRangeExclusive(s, lo, hi) == s # NaN /\ lo # NaN /\ hi # NaN /\ s >= lo /\ s < hi

\* (score >= lo) & (score <= hi): a comparison with NaN is False
InRange(s, lo, hi) == s # NaN /\ lo # NaN /\ hi # NaN /\ s >= lo /\ s <= hi

\* df.astype(str): the text of every cell of the row, column by column
CellStr(df, id, c) ==
    CASE c = "language" -> Row(df, id).language
      [] c = "qualification_name" -> Row(df, id).qualification_name
      [] c = "score" -> FloatStr(Row(df, id).score)
      [] c = "reviewed_status" -> BoolStr(Row(df, id).reviewed_status)
      [] OTHER -> <<>>
\* .apply(lambda x: x.str.contains(...)).any(axis=1)
SearchMask(df, id, term) == \E c \in Range(df.columns) : Contains(CellStr(df, id, c), term)

(***************************************************************************)
(* The filter of app.py, main: the predicates applied one after the other. *)
(***************************************************************************)
\* if selected_languages: filtered_df[filtered_df['language'].isin(selected_languages)]
FilterLanguage(df, view, langs) ==
    IF langs # {} THEN SelectSeq(view, LAMBDA id : Row(df, id).language \in langs) ELSE view

\* if selected_qualifications: ...['qualification_name'].isin(selected_qualifications)
FilterQualification(df, view, quals) ==
    IF quals # {}
    THEN SelectSeq(view, LAMBDA id : Row(df, id).qualification_name \in quals) ELSE view

\* if 'score' in filtered_df.columns: (score >= score_range[0]) & (score <= score_range[1])
FilterScore(df, view, range) ==
    IF HasCol(df, "score")
    THEN SelectSeq(view, LAMBDA id : InRange(Row(df, id).score, range[1], range[2]))
    ELSE view

\* 'Not Reviewed' without its negation
FilterReviewSame(view, status, reviewed) ==
    IF status # "All" THEN SelectSeq(view, LAMBDA id : id \in reviewed) ELSE view

\* if review_status != 'All': index.isin(reviewed_items) / ~index.isin(reviewed_items)
FilterReview(view, status, reviewed) ==
    IF status # "All"
    THEN IF status = "Reviewed"
         THEN SelectSeq(view, LAMBDA id : id \in reviewed)
         ELSE SelectSeq(view, LAMBDA id : id \notin reviewed)
    ELSE view

\* if search_term: filtered_df[search_mask]
FilterSearch(df, view, term) ==
    IF term # <<>> THEN SelectSeq(view, LAMBDA id : SearchMask(df, id, term)) ELSE view

AppFilter(df, reviewed, langs, quals, range, status, term) ==
    FilterSearch(df,
        FilterReview(
            FilterScore(df,
                FilterQualification(df, FilterLanguage(df, Index(df), langs), quals),
                range),
            status, reviewed),
        term)

(***************************************************************************)
(* The exports of app.py, main.  A CSV is its header and its rows; a row   *)
(* is known by the identifier of the table row it was written from (the    *)
(* index itself is not written: to_csv(index=False)).                      *)
(***************************************************************************)
NoCsv == [emitted |-> FALSE, header |-> <<>>, rows |-> <<>>]

\* export_df['reviewed_status'] = ...: a new last column, or the existing
\* column of that name overwritten in place
WithReviewedStatus(columns) ==
    IF "reviewed_status" \in Range(columns) THEN columns ELSE Append(columns, "reviewed_status")

\* every row of the view taken as reviewed
ReviewedIndicesAll(view, reviewed) == view

\* reviewed_indices = [idx for idx in filtered_df.index if idx in reviewed_items]
ReviewedIndices(view, reviewed) == SelectSeq(view, LAMBDA id : id \in reviewed)
\* non_reviewed_indices = [idx for idx in filtered_df.index if idx not in reviewed_items]
NonReviewedIndices(view, reviewed) == SelectSeq(view, LAMBDA id : id \notin reviewed)

\* the status column written once, before any row was reviewed
ExportAllStale(df, view, reviewed) ==
    IF Len(view) > 0
    THEN [emitted |-> TRUE, header |-> WithReviewedStatus(df.columns),
          rows |-> [i \in 1..Len(view) |-> [id |-> view[i], reviewed_status |-> FALSE]]]
    ELSE NoCsv

\* "Export All Filtered Data": reviewed_status = index.isin(reviewed_items)
ExportAll(df, view, reviewed) ==
    IF Len(view) > 0
    THEN [emitted |-> TRUE, header |-> WithReviewedStatus(df.columns),
          rows |-> [i \in 1..Len(view) |->
                      [id |-> view[i], reviewed_status |-> view[i] \in reviewed]]]
    ELSE NoCsv

\* "Export Reviewed Items": reviewed_df['reviewed_status'] = True, or the
\* disabled button
ExportReviewed(df, view, reviewed) ==
    LET ids == ReviewedIndices(view, reviewed)
    IN  IF Len(view) > 0 /\ ids # <<>>
        THEN [emitted |-> TRUE, header |-> WithReviewedStatus(df.columns),
              rows |-> [i \in 1..Len(ids) |-> [id |-> ids[i], reviewed_status |-> TRUE]]]
        ELSE NoCsv

\* "Export Non-Reviewed Items": non_reviewed_df['reviewed_status'] = False,
\* or the disabled button
ExportNonReviewed(df, view, reviewed) ==
    LET ids == NonReviewedIndices(view, reviewed)
    IN  IF Len(view) > 0 /\ ids # <<>>
        THEN [emitted |-> TRUE, header |-> WithReviewedStatus(df.columns),
              rows |-> [i \in 1..Len(ids) |-> [id |-> ids[i], reviewed_status |-> FALSE]]]
        ELSE NoCsv

(***************************************************************************)
(* Pagination and the displayed rows of app.py, main.                      *)
(***************************************************************************)
\* total_pages = max(1, (len(filtered_df) - 1) // items_per_page + 1)
TotalPages(n, size) == Max2(1, ((n - 1) \div size) + 1)
\* pages counted from 0
StartIdxFromZero(pg, size) == pg * size

\* start_idx = (page - 1) * items_per_page
StartIdx(pg, size) == (pg - 1) * size
\* end_idx = min(start_idx + items_per_page, len(filtered_df))
EndIdx(n, pg, size) == Min2(StartIdx(pg, size) + size, n)
\* page_data = filtered_df.iloc[start_idx:end_idx]
PageSlice(view, pg, size) == SubSeq(view, StartIdx(pg, size) + 1, EndIdx(Len(view), pg, size))

\* 'Score': f"{row.get('score', 0):.3f}" if pd.notna(row.get('score', 0)) else 'N/A'
ScoreDisplay(df, id) ==
    LET v == IF HasCol(df, "score") THEN Row(df, id).score ELSE 0
    IN  IF v # NaN THEN Fixed3(v) ELSE NA

\* display_data: one entry per row of the page
DisplayData(df, view, pg, size, reviewed) ==
    LET rows == PageSlice(view, pg, size)
    IN  [i \in 1..Len(rows) |->
           [row_idx |-> rows[i],
            row_no |-> StartIdx(pg, size) + (i - 1) + 1,
            reviewed |-> rows[i] \in reviewed,
            score |-> ScoreDisplay(df, rows[i])]]

(***************************************************************************)
(* State.                                                                  *)
(***************************************************************************)
VARIABLES
    \* the page's session: the file the uploader holds, st.session_state
    uploaded_file, current_data, reviewed_items,
    \* the values of the filter and pagination widgets
    selected_languages, selected_qualifications, score_range, review_status,
    search_term, items_per_page, page,
    \* what the last run of main() put on the page: whether it reached the
    \* main content, its messages, the view, the three download payloads and
    \* the rows of the table
    rendered, messages, filtered_df, csv_data, reviewed_csv, non_reviewed_csv,
    display_data,
    \* a DataManager, the session key it saves to, and what its last call and
    \* the last call of a utils.py function returned
    dm_data, dm_reviewed_items, reviewed_items_json, dm_filters, dm_result,
    dm_export, csv_text, dm_trace

sessionVars == <<uploaded_file, current_data, reviewed_items>>
widgetVars == <<selected_languages, selected_qualifications, score_range, review_status,
                search_term, items_per_page, page>>
pageVars == <<rendered, messages, filtered_df, csv_data, reviewed_csv, non_reviewed_csv,
              display_data>>
appVars == <<sessionVars, widgetVars, pageVars>>
dmVars == <<dm_data, dm_reviewed_items, reviewed_items_json, dm_filters, dm_result,
            dm_export, csv_text, dm_trace>>
vars == <<appVars, dmVars>>

\* the page as one record
App ==
    [uploaded_file |-> uploaded_file, current_data |-> current_data,
     reviewed_items |-> reviewed_items,
     selected_languages |-> selected_languages,
     selected_qualifications |-> selected_qualifications,
     score_range |-> score_range, review_status |-> review_status,
     search_term |-> search_term, items_per_page |-> items_per_page, page |-> page,
     rendered |-> rendered, messages |-> messages, filtered_df |-> filtered_df,
     csv_data |-> csv_data, reviewed_csv |-> reviewed_csv,
     non_reviewed_csv |-> non_reviewed_csv, display_data |-> display_data]

\* the first run of a session: nothing uploaded, nothing in st.session_state
Welcome ==
    [uploaded_file |-> NoFile, current_data |-> NoFile, reviewed_items |-> {},
     selected_languages |-> {}, selected_qualifications |-> {},
     score_range |-> NoScoreRange, review_status |-> "All", search_term |-> <<>>,
     items_per_page |-> DefaultPageSize, page |-> 1,
     rendered |-> FALSE, messages |-> {"welcome"}, filtered_df |-> <<>>,
     csv_data |-> NoCsv, reviewed_csv |-> NoCsv, non_reviewed_csv |-> NoCsv,
     display_data |-> <<>>]

ReviewStatuses == {"All", "Reviewed", "Not Reviewed"}
\* the search terms typed: none, or "n" (in "EN" and in "nan")
SearchTerms == {<<>>, <<"n">>}

\* a failed read drops the table of the session
LoadedTableOrNone(current, uf) == IF uf.kind = "csv" THEN uf ELSE NoFile

\* st.session_state.current_data after the upload block: the table read
\* from the uploaded file, or, with no file or a file pd.read_csv raised
\* on, the table the session already had
LoadedTable(current, uf) == IF uf.kind = "csv" THEN uf ELSE current

\* the number input drawn under another label is a new widget, at value=1
PageWidgetKept(paged, old_total, total_pages, asked) == IF paged THEN asked ELSE 1

\* st.number_input(f"Page (1-{total_pages})", min_value=1,
\* max_value=total_pages, value=1): the value asked for if the previous run
\* drew the input with the same total_pages, else 1
PageWidget(paged, old_total, total_pages, asked) ==
    IF paged /\ old_total = total_pages THEN asked ELSE 1

(***************************************************************************)
(* One run of main(), top to bottom, from the page a, after an interaction *)
(* left the uploader holding uf, the ReviewSet at ri and the widgets asked *)
(* for the values of w.  A widget keeps the value asked for only if the    *)
(* previous run drew it with the same arguments (options, min/max, label); *)
(* otherwise it is a new widget and has its default.  st.slider over a NaN *)
(* range is outside what the code controls: it either raises (slider_ok =  *)
(* FALSE, the run stops there) or hands back the range it was given.       *)
(***************************************************************************)
Main(a, uf, ri, w, slider_ok) ==
    LET cd == LoadedTable(a.current_data, uf)
        df == Coerce(cd)
        old == Coerce(a.current_data)
        raises == HasCol(df, "score") /\ ScoreMin(df) = NaN /\ ~slider_ok
        shown == uf.kind # "bad" /\ cd.kind = "csv" /\ ~raises
        langs == IF a.rendered /\ Languages(old) = Languages(df) THEN w.selected_languages ELSE {}
        quals == IF a.rendered /\ Qualifications(old) = Qualifications(df)
                 THEN w.selected_qualifications ELSE {}
        range == IF a.rendered /\ HasCol(old, "score") /\ HasCol(df, "score")
                    /\ SliderBounds(old) = SliderBounds(df)
                 THEN w.score_range ELSE SliderBounds(df)
        status == IF a.rendered THEN w.review_status ELSE "All"
        term == IF a.rendered THEN w.search_term ELSE <<>>
        view == AppFilter(df, ri, langs, quals, range, status, term)
        paged == a.rendered /\ Len(a.filtered_df) > 0
        size == IF paged THEN w.items_per_page ELSE DefaultPageSize
        pg == PageWidget(paged, TotalPages(Len(a.filtered_df), a.items_per_page),
                         TotalPages(Len(view), size), w.page)
        msgs == (IF uf.kind = "csv" THEN {"loaded"} ELSE {})
                \cup (IF uf.kind = "bad" THEN {"error_loading"} ELSE {})
                \cup (IF uf.kind # "bad" /\ cd.kind # "csv" THEN {"welcome"} ELSE {})
                \cup (IF uf.kind # "bad" /\ cd.kind = "csv" /\ raises
                      THEN {"exception"} ELSE {})
                \cup (IF shown /\ Len(view) = 0 THEN {"no_match"} ELSE {})
        session == [Welcome EXCEPT
                      !.uploaded_file = uf,
                      !.current_data = cd,
                      !.reviewed_items = ri,
                      !.messages = msgs]
    IN  IF ~shown THEN session
        ELSE IF Len(view) = 0
        THEN [session EXCEPT
                !.rendered = TRUE,
                !.selected_languages = langs, !.selected_qualifications = quals,
                !.score_range = range, !.review_status = status, !.search_term = term]
        ELSE [session EXCEPT
                !.rendered = TRUE,
                !.selected_languages = langs, !.selected_qualifications = quals,
                !.score_range = range, !.review_status = status, !.search_term = term,
                !.filtered_df = view,
                !.csv_data = ExportAll(df, view, ri),
                !.reviewed_csv = ExportReviewed(df, view, ri),
                !.non_reviewed_csv = ExportNonReviewed(df, view, ri),
                !.items_per_page = size, !.page = pg,
                !.display_data = DisplayData(df, view, pg, size, ri)]

\* the outcomes of st.slider in the run: it can only fail over a NaN range
SliderOutcomes(a, uf) ==
    LET df == Coerce(LoadedTable(a.current_data, uf))
    IN  IF HasCol(df, "score") /\ ScoreMin(df) = NaN THEN BOOLEAN ELSE {TRUE}

\* the page is r
IsApp(r) ==
    /\ uploaded_file = r.uploaded_file
    /\ current_data = r.current_data
    /\ reviewed_items = r.reviewed_items
    /\ selected_languages = r.selected_languages
    /\ selected_qualifications = r.selected_qualifications
    /\ score_range = r.score_range
    /\ review_status = r.review_status
    /\ search_term = r.search_term
    /\ items_per_page = r.items_per_page
    /\ page = r.page
    /\ rendered = r.rendered
    /\ messages = r.messages
    /\ filtered_df = r.filtered_df
    /\ csv_data = r.csv_data
    /\ reviewed_csv = r.reviewed_csv
    /\ non_reviewed_csv = r.non_reviewed_csv
    /\ display_data = r.display_data

\* the page becomes r
BecomesApp(r) ==
    /\ uploaded_file' = r.uploaded_file
    /\ current_data' = r.current_data
    /\ reviewed_items' = r.reviewed_items
    /\ selected_languages' = r.selected_languages
    /\ selected_qualifications' = r.selected_qualifications
    /\ score_range' = r.score_range
    /\ review_status' = r.review_status
    /\ search_term' = r.search_term
    /\ items_per_page' = r.items_per_page
    /\ page' = r.page
    /\ rendered' = r.rendered
    /\ messages' = r.messages
    /\ filtered_df' = r.filtered_df
    /\ csv_data' = r.csv_data
    /\ reviewed_csv' = r.reviewed_csv
    /\ non_reviewed_csv' = r.non_reviewed_csv
    /\ display_data' = r.display_data

\* the script runs again after an interaction
Rerun(uf, ri, w) ==
    \E ok \in SliderOutcomes(App, uf) : BecomesApp(Main(App, uf, ri, w, ok))

\* The run in which "Clear All Filters" or "Clear All Reviews" is clicked
\* stops at the button's st.rerun(), before the widgets below the button
\* are drawn, and the script runs again.  Whether a widget the stopped run
\* did not draw keeps its value through it is the framework's choice: kept,
\* or the page the next run starts from has lost it.
\* "Clear All Filters" (line 142): the filter widgets are above the button,
\* the pagination widgets below it
StoppedAtClearFilters(a, kept) == IF kept THEN a ELSE [a EXCEPT !.filtered_df = <<>>]
\* "Clear All Reviews" (line 75): every widget of the main content is below
\* the button
StoppedAtClearReviews(a, kept) == IF kept THEN a ELSE [a EXCEPT !.rendered = FALSE]

\* the page after "Clear All Filters" is clicked on the page
AfterClearAllFilters(kept, slider_ok) ==
    Main(StoppedAtClearFilters(App, kept), uploaded_file, reviewed_items, App, slider_ok)
\* the page after "Clear All Reviews" is clicked on the page
AfterClearAllReviews(kept, slider_ok) ==
    Main(StoppedAtClearReviews(App, kept), uploaded_file, {}, App, slider_ok)

\* the table the page is showing
CurrentDf == Coerce(current_data)
\* the identifiers of the rows on the page
PageIds == {display_data[i].row_idx : i \in 1..Len(display_data)}
\* the values the score slider can be dragged to
SliderPoints == Scores(CurrentDf) \cup (Range(SliderBounds(CurrentDf)) \ {NaN})

(***************************************************************************)
(* The interactions.                                                       *)
(***************************************************************************)
\* the ReviewSet emptied when a file is chosen
UploadClearsReviews(f) ==
    /\ f # uploaded_file
    /\ Rerun(f, {}, App)
    /\ UNCHANGED dmVars

\* st.file_uploader: a file is chosen
Upload(f) ==
    /\ f # uploaded_file
    /\ Rerun(f, reviewed_items, App)
    /\ UNCHANGED dmVars

\* st.file_uploader: the file is removed from the uploader
RemoveUpload ==
    /\ uploaded_file.kind # "none"
    /\ Rerun(NoFile, reviewed_items, App)
    /\ UNCHANGED dmVars

\* st.multiselect "Filter by Client_Country_Name"
SelectLanguages(sel) ==
    /\ rendered
    /\ sel \subseteq Range(Languages(CurrentDf))
    /\ Rerun(uploaded_file, reviewed_items, [App EXCEPT !.selected_languages = sel])
    /\ UNCHANGED dmVars

\* st.multiselect "Filter by Client Qualification Name"
SelectQualifications(sel) ==
    /\ rendered
    /\ sel \subseteq Range(Qualifications(CurrentDf))
    /\ Rerun(uploaded_file, reviewed_items, [App EXCEPT !.selected_qualifications = sel])
    /\ UNCHANGED dmVars

\* st.slider "Score Range"
SetScoreRange(lo, hi) ==
    /\ rendered
    /\ HasCol(CurrentDf, "score")
    /\ lo \in SliderPoints /\ hi \in SliderPoints /\ lo <= hi
    /\ Rerun(uploaded_file, reviewed_items, [App EXCEPT !.score_range = <<lo, hi>>])
    /\ UNCHANGED dmVars

\* st.selectbox "Review Status"
SetReviewStatus(status) ==
    /\ rendered
    /\ Rerun(uploaded_file, reviewed_items, [App EXCEPT !.review_status = status])
    /\ UNCHANGED dmVars

\* st.text_input "Search"
SetSearchTerm(term) ==
    /\ rendered
    /\ Rerun(uploaded_file, reviewed_items, [App EXCEPT !.search_term = term])
    /\ UNCHANGED dmVars

\* st.button "Clear All Filters": st.rerun()
ClearAllFilters ==
    /\ rendered
    /\ \E kept \in BOOLEAN, ok \in SliderOutcomes(App, uploaded_file) :
          BecomesApp(AfterClearAllFilters(kept, ok))
    /\ UNCHANGED dmVars

\* st.selectbox "Items per page"
SetItemsPerPage(size) ==
    /\ rendered /\ Len(filtered_df) > 0
    /\ Rerun(uploaded_file, reviewed_items, [App EXCEPT !.items_per_page = size])
    /\ UNCHANGED dmVars

\* st.number_input "Page (1-total_pages)", min_value=1, max_value=total_pages
SetPage(pg) ==
    /\ rendered /\ Len(filtered_df) > 0
    /\ pg \in 1..TotalPages(Len(filtered_df), items_per_page)
    /\ Rerun(uploaded_file, reviewed_items, [App EXCEPT !.page = pg])
    /\ UNCHANGED dmVars

\* st.download_button of an export the page offers: the click hands the
\* payload to the browser and the script runs again
Download(csv) ==
    /\ rendered /\ csv.emitted
    /\ Rerun(uploaded_file, reviewed_items, App)
    /\ UNCHANGED dmVars

\* "Mark n Selected as Reviewed": reviewed_items.add(idx) for the checked
\* rows of the page, st.rerun()
MarkSelected(selected_indices) ==
    /\ rendered
    /\ selected_indices # {} /\ selected_indices \subseteq PageIds
    /\ Rerun(uploaded_file, reviewed_items \cup selected_indices, App)
    /\ UNCHANGED dmVars

\* "Unmark n Selected": reviewed_items.discard(idx) for the checked rows of
\* the page, st.rerun()
UnmarkSelected(selected_indices) ==
    /\ rendered
    /\ selected_indices # {} /\ selected_indices \subseteq PageIds
    /\ Rerun(uploaded_file, reviewed_items \ selected_indices, App)
    /\ UNCHANGED dmVars

\* sidebar "Clear All Reviews" (drawn when the run got past the upload with
\* a table in the session): reviewed_items.clear(), st.rerun()
ClearAllReviews ==
    /\ uploaded_file.kind # "bad" /\ current_data.kind = "csv"
    /\ \E kept \in BOOLEAN, ok \in SliderOutcomes(App, uploaded_file) :
          BecomesApp(AfterClearAllReviews(kept, ok))
    /\ UNCHANGED dmVars

(***************************************************************************)
(* data_manager.py, DataManager, and the exports of utils.py.  A frame is  *)
(* a DataFrame a caller holds: its columns and the identifiers of its rows.*)
(***************************************************************************)
NoFrame == [columns |-> <<>>, index |-> <<>>]

\* filter_data(**filters) called with no keyword.  score_keys: the keywords
\* score_min and score_max are given; score_range: the value of the keyword
\* score_range, <<>> when it is not given
NoFilters ==
    [languages |-> {}, qualifications |-> {}, score_keys |-> FALSE,
     score_min |-> 0, score_max |-> 0, score_range |-> <<>>,
     review_status |-> "All", search_term |-> <<>>]

\* utils.create_filters(df): the dictionary returned when the user has
\* selected langs, quals, range, status ('All', 'Reviewed', 'Not Reviewed')
\* and term: keys languages, score_range, qualifications, review_status,
\* search_term
CreateFilters(langs, quals, range, status, term) ==
    [languages |-> langs, qualifications |-> quals, score_keys |-> FALSE,
     score_min |-> 0, score_max |-> 0, score_range |-> range,
     review_status |-> status, search_term |-> term]

\* DataManager.load_data: a copy with the score column numeric, or with a
\* score column of 0.5 added as the last column
LoadData(df) ==
    IF HasCol(df, "score") THEN Coerce(df)
    ELSE [df EXCEPT !.columns = Append(@, "score"),
                    !.rows = [i \in 1..Len(df.rows) |->
                                [df.rows[i] EXCEPT !.score = FallbackScore]]]

\* DataManager.mark_reviewed: self.reviewed_items.add(row_index)
MarkReviewed(items, row_index) == items \cup {row_index}
\* the row is left in the set
UnmarkReviewedKeeps(items, row_index) == items

\* DataManager.unmark_reviewed: self.reviewed_items.discard(row_index)
UnmarkReviewed(items, row_index) == items \ {row_index}

\* DataManager.filter_data
FilterData(data, reviewed, f) ==
    IF data.kind # "csv" THEN NoFrame
    ELSE LET v1 == FilterLanguage(data, Index(data), f.languages)
             v2 == FilterQualification(data, v1, f.qualifications)
             v3 == IF f.score_keys
                   THEN SelectSeq(v2, LAMBDA id :
                                      InRange(Row(data, id).score, f.score_min, f.score_max))
                   ELSE v2
             v4 == IF f.review_status = "reviewed"
                   THEN SelectSeq(v3, LAMBDA id : id \in reviewed)
                   ELSE IF f.review_status = "not_reviewed"
                   THEN SelectSeq(v3, LAMBDA id : id \notin reviewed)
                   ELSE v3
             v5 == FilterSearch(data, v4, f.search_term)
         IN  [columns |-> data.columns, index |-> v5]

\* DataFrame.empty: no rows or no columns
Empty(frame) == Len(frame.index) = 0 \/ Len(frame.columns) = 0

\* DataManager.export_data_with_review_status(filtered_df): the frame
\* returned, with reviewed_status only if the frame is not empty
ExportDataWithReviewStatus(frame, reviewed) ==
    IF ~Empty(frame)
    THEN [emitted |-> TRUE, header |-> WithReviewedStatus(frame.columns),
          rows |-> [i \in 1..Len(frame.index) |->
                      [id |-> frame.index[i], reviewed_status |-> frame.index[i] \in reviewed]]]
    ELSE [emitted |-> TRUE, header |-> frame.columns, rows |-> <<>>]

\* utils.export_filtered_data(df, reviewed_items): the CSV text
ExportFilteredData(frame, reviewed) ==
    [emitted |-> TRUE, header |-> WithReviewedStatus(frame.columns),
     rows |-> [i \in 1..Len(frame.index) |->
                 [id |-> frame.index[i], reviewed_status |-> frame.index[i] \in reviewed]]]

\* the frame of the whole table of the manager: self.data.copy(), or pd.DataFrame()
DataFrameOf(data) ==
    IF data.kind = "csv" THEN [columns |-> data.columns, index |-> Index(data)] ELSE NoFrame

\* the last two review calls, oldest first: the call, its row and whether
\* the row was in reviewed_items before the call
Traced(op, row_index) ==
    LET e == [op |-> op, row_index |-> row_index, was_in |-> row_index \in dm_reviewed_items]
    IN  IF dm_trace = <<>> THEN <<e>> ELSE <<dm_trace[Len(dm_trace)], e>>

\* DataManager(): data = None, reviewed_items from st.session_state
NewDataManager ==
    /\ dm_data' = NoFile
    /\ dm_reviewed_items' = reviewed_items_json
    /\ dm_trace' = <<>>
    /\ dm_export' = NoCsv /\ csv_text' = NoCsv
    /\ UNCHANGED <<reviewed_items_json, dm_filters, dm_result>>
    /\ UNCHANGED appVars

\* dm.load_data(df)
DmLoadData(f) ==
    /\ dm_data' = LoadData(f)
    /\ dm_trace' = <<>>
    /\ dm_export' = NoCsv /\ csv_text' = NoCsv
    /\ UNCHANGED <<dm_reviewed_items, reviewed_items_json, dm_filters, dm_result>>
    /\ UNCHANGED appVars

\* dm.mark_reviewed(row_index), with its _save_reviewed_state()
DmMarkReviewed(row_index) ==
    /\ dm_reviewed_items' = MarkReviewed(dm_reviewed_items, row_index)
    /\ reviewed_items_json' = dm_reviewed_items'
    /\ dm_trace' = Traced("mark", row_index)
    /\ dm_export' = NoCsv /\ csv_text' = NoCsv
    /\ UNCHANGED <<dm_data, dm_filters, dm_result>>
    /\ UNCHANGED appVars

\* dm.unmark_reviewed(row_index), with its _save_reviewed_state()
DmUnmarkReviewed(row_index) ==
    /\ dm_reviewed_items' = UnmarkReviewed(dm_reviewed_items, row_index)
    /\ reviewed_items_json' = dm_reviewed_items'
    /\ dm_trace' = Traced("unmark", row_index)
    /\ dm_export' = NoCsv /\ csv_text' = NoCsv
    /\ UNCHANGED <<dm_data, dm_filters, dm_result>>
    /\ UNCHANGED appVars

\* dm.clear_reviewed_state()
DmClearReviewedState ==
    /\ dm_reviewed_items' = {}
    /\ reviewed_items_json' = dm_reviewed_items'
    /\ dm_trace' = <<>>
    /\ dm_export' = NoCsv /\ csv_text' = NoCsv
    /\ UNCHANGED <<dm_data, dm_filters, dm_result>>
    /\ UNCHANGED appVars

\* filtered = dm.filter_data(**f)
DmFilterData(f) ==
    /\ dm_filters' = f
    /\ dm_result' = FilterData(dm_data, dm_reviewed_items, f)
    /\ dm_trace' = <<>>
    /\ dm_export' = NoCsv /\ csv_text' = NoCsv
    /\ UNCHANGED <<dm_data, dm_reviewed_items, reviewed_items_json>>
    /\ UNCHANGED appVars

\* dm.export_data_with_review_status(filtered) or, with no argument, of the
\* whole table
DmExportDataWithReviewStatus(with_arg) ==
    /\ dm_export' = ExportDataWithReviewStatus(
                        IF with_arg THEN dm_result ELSE DataFrameOf(dm_data),
                        dm_reviewed_items)
    /\ csv_text' = NoCsv
    /\ dm_trace' = <<>>
    /\ UNCHANGED <<dm_data, dm_reviewed_items, reviewed_items_json, dm_filters, dm_result>>
    /\ UNCHANGED appVars

\* export_filtered_data(filtered, dm.get_reviewed_items()), of a frame
\* filtered from a loaded table
DmExportFilteredData ==
    /\ dm_result.columns # <<>>
    /\ csv_text' = ExportFilteredData(dm_result, dm_reviewed_items)
    /\ dm_export' = NoCsv
    /\ dm_trace' = <<>>
    /\ UNCHANGED <<dm_data, dm_reviewed_items, reviewed_items_json, dm_filters, dm_result>>
    /\ UNCHANGED appVars

\* utils.validate_csv_structure: required_columns
RequiredColumns ==
    <<"language", "questions", "qualification_name", "client_answer_text", "score">>
\* f"Missing required column: {col}"
MissingMessage(c) ==
    CASE c = "language" -> "Missing required column: language"
      [] c = "questions" -> "Missing required column: questions"
      [] c = "qualification_name" -> "Missing required column: qualification_name"
      [] c = "client_answer_text" -> "Missing required column: client_answer_text"
      [] c = "score" -> "Missing required column: score"
\* the expected_columns of validate_csv_structure, none of which a table of
\* the model has
OptionalNotFound == "Optional columns not found"
ScoreNotConverted == "Some score values could not be converted to numbers."

\* utils.validate_csv_structure(df): (is_valid, missing_columns + warnings)
ValidateCsvStructure(df) ==
    LET absent == SelectSeq(RequiredColumns, LAMBDA c : ~HasCol(df, c))
        missing_columns == [i \in 1..Len(absent) |-> MissingMessage(absent[i])]
        warnings ==
            (IF HasCol(df, "score")
                   /\ \E i \in 1..Len(df.rows) : ToNumeric(df.rows[i].score) = NaN
             THEN <<ScoreNotConverted>> ELSE <<>>)
            \o <<OptionalNotFound>>
    IN  [is_valid |-> Len(missing_columns) = 0, messages |-> missing_columns \o warnings]

(***************************************************************************)
(* The session of the page: from the first run, with nothing uploaded.     *)
(***************************************************************************)
DmIdle ==
    /\ dm_data = NoFile
    /\ dm_reviewed_items = {}
    /\ reviewed_items_json = {}
    /\ dm_filters = NoFilters
    /\ dm_result = NoFrame
    /\ dm_export = NoCsv
    /\ csv_text = NoCsv
    /\ dm_trace = <<>>

\* the tables of a session: with a score column (some cells not numbers,
\* a single score, no score at all, no row), and without one
Tables ==
    {SampleFile(0, n, TRUE) : n \in 0..MaxRows}
    \cup {SampleFile(2, 1, TRUE), SampleFile(0, MaxRows, FALSE)}
\* the files uploaded in a session
Uploads == Tables \cup {StatusFile, BadFile}

Init == IsApp(Welcome) /\ DmIdle

Next ==
    \/ \E f \in Uploads : Upload(f)
    \/ RemoveUpload
    \/ \E sel \in SUBSET {EN, FR} : SelectLanguages(sel)
    \/ \E sel \in SUBSET {Q1, Q2} : SelectQualifications(sel)
    \/ \E lo \in SliderPoints, hi \in SliderPoints : SetScoreRange(lo, hi)
    \/ \E status \in ReviewStatuses : SetReviewStatus(status)
    \/ \E term \in SearchTerms : SetSearchTerm(term)
    \/ ClearAllFilters
    \/ \E csv \in {csv_data, reviewed_csv, non_reviewed_csv} : Download(csv)
    \/ \E sel \in SUBSET PageIds : MarkSelected(sel)
    \/ \E sel \in SUBSET PageIds : UnmarkSelected(sel)
    \/ ClearAllReviews

Spec == Init /\ [][Next]_vars

(***************************************************************************)
(* Paging through a view: a table of up to MaxPageRows rows is on the page *)
(* with every filter at its default.                                       *)
(***************************************************************************)
InitPage ==
    /\ \E n \in 0..MaxPageRows, scored \in BOOLEAN :
          IsApp(Main(Welcome, SampleFile(0, n, scored), {}, Welcome, TRUE))
    /\ DmIdle

NextPage ==
    \/ \E size \in Range(PageSizes) : SetItemsPerPage(size)
    \/ \E pg \in 1..TotalPages(Len(filtered_df), items_per_page) : SetPage(pg)

SpecPage == InitPage /\ [][NextPage]_vars

(***************************************************************************)
(* Reviewing through the pages of a view: a table of MaxViewRows rows,     *)
(* none of them dropped by the score filter, is uploaded; the reviewer     *)
(* pages through it by 10 or 25, filters it, marks and unmarks the rows of *)
(* a page or the last row of it, exports, and uploads a file that cannot   *)
(* be read, or the table again.                                            *)
(***************************************************************************)
BrowseUploads == {SampleFile(0, MaxViewRows, FALSE), BadFile}

\* the rows checked on the page: all of them, or the last one
Selections ==
    IF display_data = <<>> THEN {}
    ELSE {PageIds, {display_data[Len(display_data)].row_idx}}

NextBrowse ==
    \/ \E size \in {PageSizes[1], PageSizes[2]} : SetItemsPerPage(size)
    \/ \E pg \in 1..TotalPages(Len(filtered_df), items_per_page) : SetPage(pg)
    \/ \E status \in ReviewStatuses : SetReviewStatus(status)
    \/ \E sel \in {{}, {EN}} : SelectLanguages(sel)
    \/ \E sel \in Selections : MarkSelected(sel)
    \/ \E sel \in Selections : UnmarkSelected(sel)
    \/ ClearAllFilters
    \/ \E csv \in {csv_data, reviewed_csv, non_reviewed_csv} : Download(csv)
    \/ \E f \in BrowseUploads : Upload(f)
    \/ ClearAllReviews

SpecBrowse == Init /\ [][NextBrowse]_vars

(***************************************************************************)
(* A caller of the library: a DataManager over the session, and the        *)
(* exports of utils.py applied to what it returns.                         *)
(***************************************************************************)
\* the row indices a caller passes
RowIndices == 0..(MaxRows - 1)

\* the keyword sets a caller filters with
FilterCalls ==
    { NoFilters,
      [NoFilters EXCEPT !.score_keys = TRUE, !.score_min = 300, !.score_max = 500],
      [NoFilters EXCEPT !.review_status = "reviewed"],
      [NoFilters EXCEPT !.review_status = "not_reviewed"],
      CreateFilters({}, {}, <<300, 300>>, "Reviewed", <<>>) }

NextDM ==
    \/ NewDataManager
    \/ \E f \in Tables : DmLoadData(f)
    \/ \E i \in RowIndices : DmMarkReviewed(i)
    \/ \E i \in RowIndices : DmUnmarkReviewed(i)
    \/ DmClearReviewedState
    \/ \E f \in FilterCalls : DmFilterData(f)
    \/ \E with_arg \in BOOLEAN : DmExportDataWithReviewStatus(with_arg)
    \/ DmExportFilteredData

SpecDM == Init /\ [][NextDM]_vars

(***************************************************************************)
(* The properties.                                                         *)
(***************************************************************************)
\* every filter of the page is at its default
AllDefault ==
    /\ selected_languages = {}
    /\ selected_qualifications = {}
    /\ score_range = SliderBounds(CurrentDf)
    /\ review_status = "All"
    /\ search_term = <<>>

\* the identifiers of the rows of an export
Ids(csv) == {csv.rows[i].id : i \in 1..Len(csv.rows)}

\* the score column of the table on the page holds no number at all (the
\* slider is then drawn over a NaN range)
NoNumber == HasCol(CurrentDf, "score") /\ ScoreMin(CurrentDf) = NaN

\* C1: with every filter at its default the view is the loaded table: the
\* same rows in the same order, also when some rows have no score.  (Stated
\* for the tables the slider is certain to be drawn for.)
C1_DefaultViewIsTable ==
    (rendered /\ AllDefault /\ ~NoNumber) => filtered_df = Index(CurrentDf)

\* C2: the rows of the reviewed export and of the non-reviewed export are
\* disjoint, and together they are the rows of the all-filtered export,
\* which are the rows of the view.
C2_ExportsPartitionView ==
    /\ Ids(reviewed_csv) \cap Ids(non_reviewed_csv) = {}
    /\ Ids(reviewed_csv) \cup Ids(non_reviewed_csv) = Ids(csv_data)
    /\ Ids(csv_data) = Range(filtered_df)

\* C2 happens: both partial exports are offered, under a language filter
C2_Witness ==
    /\ reviewed_csv.emitted /\ non_reviewed_csv.emitted
    /\ selected_languages # {}
    /\ Len(filtered_df) < Len(current_data.rows)

\* the pages 1..k of a view, one after the other
RECURSIVE ConcatPages(_, _, _)
ConcatPages(view, size, k) ==
    IF k = 0 THEN <<>> ELSE ConcatPages(view, size, k - 1) \o PageSlice(view, k, size)

\* C3: for every page size of the menu, the pages 1..total_pages of the
\* view, one after the other, are the view; and the page shown is the slice
\* of the page number.
C3_PagesReconstructView ==
    /\ \A size \in Range(PageSizes) :
          ConcatPages(filtered_df, size, TotalPages(Len(filtered_df), size)) = filtered_df
    /\ [i \in 1..Len(display_data) |-> display_data[i].row_idx]
          = PageSlice(filtered_df, page, items_per_page)

\* C3 happens: the last of several pages of 100 is on the page, and it is
\* not full
C3_Witness ==
    /\ items_per_page = PageSizes[4]
    /\ page = TotalPages(Len(filtered_df), items_per_page)
    /\ page > 1
    /\ Len(display_data) < items_per_page

\* the last two review calls were mark_reviewed(i) and then unmark_reviewed(i)
MarkThenUnmark ==
    /\ Len(dm_trace) = 2
    /\ dm_trace[1].op = "mark" /\ dm_trace[2].op = "unmark"
    /\ dm_trace[1].row_index = dm_trace[2].row_index

\* C4 as claimed: Mark(id) then Unmark(id) leaves the membership of id as it
\* was before the Mark, whether or not id was in the ReviewSet.
C4_RoundTripAlways ==
    MarkThenUnmark =>
        ((dm_trace[1].row_index \in dm_reviewed_items) = dm_trace[1].was_in)

\* C4 as amended: after Mark(id) then Unmark(id), id is not in the
\* ReviewSet, in the manager and in the saved session key; so the
\* membership is as before the Mark exactly when id was not in the
\* ReviewSet before it.
C4_RoundTripWhenAbsent ==
    MarkThenUnmark =>
        /\ dm_trace[1].row_index \notin dm_reviewed_items
        /\ dm_trace[1].row_index \notin reviewed_items_json
        /\ ((dm_trace[1].row_index \in dm_reviewed_items) = dm_trace[1].was_in)
              <=> ~dm_trace[1].was_in

\* C4 happens: a row that was not reviewed was marked and then unmarked,
\* with another row in the ReviewSet
C4_Witness ==
    /\ MarkThenUnmark
    /\ ~dm_trace[1].was_in
    /\ dm_reviewed_items # {}

\* C5: an upload that cannot be parsed is reported, and leaves the table of
\* the session (or its absence) and the ReviewSet as they were.
C5_FailedUploadKeepsSession ==
    [][ (uploaded_file'.kind = "bad") =>
            /\ current_data' = current_data
            /\ reviewed_items' = reviewed_items
            /\ "error_loading" \in messages'
            /\ "loaded" \notin messages' ]_vars

\* C5 happens: a file that cannot be parsed was uploaded over a loaded
\* table with reviewed rows
C5_Witness ==
    /\ uploaded_file.kind = "bad"
    /\ current_data.kind = "csv"
    /\ reviewed_items # {}
    /\ "error_loading" \in messages

\* the predicates of the filter, row by row
PassLanguage(id) ==
    selected_languages = {} \/ Row(CurrentDf, id).language \in selected_languages
PassQualification(id) ==
    selected_qualifications = {}
    \/ Row(CurrentDf, id).qualification_name \in selected_qualifications
PassScore(id) ==
    HasCol(CurrentDf, "score") =>
        /\ Row(CurrentDf, id).score # NaN
        /\ score_range[1] # NaN /\ score_range[2] # NaN
        /\ score_range[1] <= Row(CurrentDf, id).score
        /\ Row(CurrentDf, id).score <= score_range[2]
PassReview(id) ==
    \/ review_status = "All"
    \/ review_status = "Reviewed" /\ id \in reviewed_items
    \/ review_status = "Not Reviewed" /\ id \notin reviewed_items
PassSearch(id) ==
    search_term = <<>> \/ SearchMask(CurrentDf, id, search_term)
PassOthers(id) ==
    PassLanguage(id) /\ PassQualification(id) /\ PassScore(id) /\ PassSearch(id)

\* C6: of the rows that pass the other filters, the score-range filter
\* keeps exactly those with a score that is not missing and lies in
\* [min, max], both ends included; with the range at the smallest and the
\* largest score of the table and nothing else filtered, the view is the
\* rows with a score.
C6_ScoreRangeInclusive ==
    (rendered /\ HasCol(CurrentDf, "score")) =>
        /\ filtered_df =
              SelectSeq(Index(CurrentDf),
                        LAMBDA id : /\ PassLanguage(id) /\ PassQualification(id)
                                    /\ PassReview(id) /\ PassSearch(id)
                                    /\ Row(CurrentDf, id).score # NaN
                                    /\ score_range[1] # NaN /\ score_range[2] # NaN
                                    /\ score_range[1] <= Row(CurrentDf, id).score
                                    /\ Row(CurrentDf, id).score <= score_range[2])
        /\ ( /\ score_range = <<ScoreMin(CurrentDf), ScoreMax(CurrentDf)>>
             /\ selected_languages = {} /\ selected_qualifications = {}
             /\ review_status = "All" /\ search_term = <<>> )
           => filtered_df =
                 SelectSeq(Index(CurrentDf), LAMBDA id : Row(CurrentDf, id).score # NaN)

\* C6 happens: the range is a single score; a row with that score is kept,
\* a row with a larger score and a row with no score are dropped
C6_Witness ==
    /\ rendered /\ HasCol(CurrentDf, "score")
    /\ score_range[1] = score_range[2]
    /\ \E i \in 1..Len(filtered_df) : Row(CurrentDf, filtered_df[i]).score = score_range[2]
    /\ \E i \in 1..Len(CurrentDf.rows) : CurrentDf.rows[i].score > score_range[2]
    /\ \E i \in 1..Len(CurrentDf.rows) : CurrentDf.rows[i].score = NaN
    /\ selected_languages = {} /\ selected_qualifications = {}
    /\ review_status = "All" /\ search_term = <<>>

\* C7: a table without a score column is loaded with a warning, and every
\* row shown has the fallback score 0.5.
C7_NoScoreColumnFallback ==
    (rendered /\ ~HasCol(current_data, "score") /\ "loaded" \in messages) =>
        /\ "warning" \in messages
        /\ \A i \in 1..Len(display_data) : display_data[i].score = Fixed3(FallbackScore)

\* the view the page would show with the review status set to status
ViewWith(status) ==
    AppFilter(CurrentDf, reviewed_items, selected_languages, selected_qualifications,
              score_range, status, search_term)

\* C8: under 'Reviewed' the view is the rows that pass the other filters
\* and are in the ReviewSet, under 'Not Reviewed' those that are not in it;
\* every row that passes the other filters is in exactly one of the two.
C8_ReviewStatusPartitions ==
    rendered =>
        /\ filtered_df = SelectSeq(Index(CurrentDf),
                                   LAMBDA id : PassOthers(id) /\ PassReview(id))
        /\ ViewWith("Reviewed") =
              SelectSeq(Index(CurrentDf), LAMBDA id : PassOthers(id) /\ id \in reviewed_items)
        /\ ViewWith("Not Reviewed") =
              SelectSeq(Index(CurrentDf), LAMBDA id : PassOthers(id) /\ id \notin reviewed_items)
        /\ Range(ViewWith("Reviewed")) \cap Range(ViewWith("Not Reviewed")) = {}
        /\ Range(ViewWith("Reviewed")) \cup Range(ViewWith("Not Reviewed"))
              = {id \in Range(Index(CurrentDf)) : PassOthers(id)}

\* C8 happens: under a language filter that drops a row, two rows are
\* marked, and the 'Reviewed' view shows the two
C8_Witness ==
    /\ rendered
    /\ review_status = "Reviewed"
    /\ selected_languages # {}
    /\ \E i \in 1..Len(CurrentDf.rows) : CurrentDf.rows[i].language \notin selected_languages
    /\ Cardinality(reviewed_items) = 2
    /\ Range(filtered_df) = reviewed_items

\* the exports the page offers
PageExports == {csv_data, reviewed_csv, non_reviewed_csv}

\* C9: every row of every export of the page has reviewed_status true
\* exactly when its identifier is in the ReviewSet of the session.
C9_ExportStatusIsCurrent ==
    \A csv \in PageExports :
        \A i \in 1..Len(csv.rows) :
            csv.rows[i].reviewed_status = (csv.rows[i].id \in reviewed_items)

\* C9 happens: the view holds a reviewed and a non-reviewed row under the
\* 'All' status, with a reviewed row outside the view
C9_Witness ==
    /\ csv_data.emitted
    /\ \E i \in 1..Len(csv_data.rows) : csv_data.rows[i].reviewed_status
    /\ \E i \in 1..Len(csv_data.rows) : ~csv_data.rows[i].reviewed_status
    /\ reviewed_items \ Range(filtered_df) # {}

\* C10: no export is produced over an empty subset: not by the three
\* buttons of the page, not by export_filtered_data.
C10_NoEmptyExport ==
    \A csv \in PageExports \cup {csv_text} : csv.emitted => csv.rows # <<>>

\* C11: the header of every export of the page is the column list of the
\* uploaded table, in its order, followed by one appended column
\* reviewed_status, whatever columns the table has (no score column, a
\* column already named reviewed_status).
C11_ExportColumns ==
    \A csv \in PageExports :
        csv.emitted => csv.header = Append(current_data.columns, "reviewed_status")

\* the required columns the table does not have
AbsentRequired(df) == {c \in Range(RequiredColumns) : ~HasCol(df, c)}

\* C12: a parseable upload becomes the current table whatever its columns,
\* every required column it lacks is reported on the page, and
\* validate_csv_structure gives is_valid = false exactly when a required
\* column is absent, with one message for each absent required column.
C12_MissingColumnsReported ==
    uploaded_file.kind = "csv" =>
        /\ current_data = uploaded_file
        /\ "loaded" \in messages
        /\ \A c \in AbsentRequired(current_data) : MissingMessage(c) \in messages
        /\ LET v == ValidateCsvStructure(current_data)
           IN  /\ v.is_valid = (AbsentRequired(current_data) = {})
               /\ \A c \in Range(RequiredColumns) :
                     Cardinality({i \in 1..Len(v.messages) : v.messages[i] = MissingMessage(c)})
                        = IF c \in AbsentRequired(current_data) THEN 1 ELSE 0

\* the predicates of the page's filter applied in the opposite order
ReversedFilter ==
    FilterLanguage(CurrentDf,
        FilterQualification(CurrentDf,
            FilterScore(CurrentDf,
                FilterReview(FilterSearch(CurrentDf, Index(CurrentDf), search_term),
                             review_status, reviewed_items),
                score_range),
            selected_qualifications),
        selected_languages)

\* the score dimension is at its default: the whole range of the slider
ScoreAtDefault == score_range = SliderBounds(CurrentDf)

\* C13: the view is the rows of the table, in the table's order, that
\* satisfy every active predicate; a dimension that is empty or at its
\* default excludes no row; and the predicates applied in another order
\* give the same view.  (Stated for the tables the slider is certain to be
\* drawn for.)
C13_ViewIsConjunction ==
    (rendered /\ ~NoNumber) =>
        /\ filtered_df =
              SelectSeq(Index(CurrentDf),
                        LAMBDA id : /\ PassLanguage(id) /\ PassQualification(id)
                                    /\ (ScoreAtDefault \/ PassScore(id))
                                    /\ PassReview(id) /\ PassSearch(id))
        /\ filtered_df = ReversedFilter

\* ceil(total / size)
Ceil(total, size) == (total + size - 1) \div size

\* the page r has a page number of its view, and shows a non-empty slice
\* of the view, and no error
PageInRange(r) ==
    /\ r.page \in 1..Ceil(Len(r.filtered_df), r.items_per_page)
    /\ r.display_data # <<>>
    /\ [i \in 1..Len(r.display_data) |-> r.display_data[i].row_idx]
          = SubSeq(r.filtered_df, StartIdx(r.page, r.items_per_page) + 1,
                   StartIdx(r.page, r.items_per_page) + Len(r.display_data))
    /\ StartIdx(r.page, r.items_per_page) + Len(r.display_data) <= Len(r.filtered_df)
    /\ r.messages \cap {"exception", "error_loading"} = {}

\* the page after the rows sel of the page are unmarked
UnmarkedPage(sel) == Main(App, uploaded_file, reviewed_items \ sel, App, TRUE)

\* C14: whenever the view is not empty, the page number is in
\* [1, ceil(total/size)], the rows shown are a non-empty slice of the view,
\* and no error is on the page; and so it is on the page that follows an
\* Unmark of rows of the page, if its view is not empty (under 'Reviewed'
\* the Unmark takes the rows out of the view).
C14_PageInRange ==
    (rendered /\ Len(filtered_df) > 0) =>
        /\ PageInRange(App)
        /\ \A sel \in Selections :
              Len(UnmarkedPage(sel).filtered_df) > 0 => PageInRange(UnmarkedPage(sel))

\* C14 happens: under 'Reviewed' the last of two pages is on the page with
\* a single row, so that unmarking the row takes the page away
C14_Witness ==
    /\ rendered /\ review_status = "Reviewed"
    /\ page = 2 /\ Len(display_data) = 1
    /\ \E sel \in Selections :
          /\ Len(UnmarkedPage(sel).filtered_df) = Len(filtered_df) - 1
          /\ TotalPages(Len(UnmarkedPage(sel).filtered_df), items_per_page) = 1
          /\ UnmarkedPage(sel).page = 1

\* the FilterSpec of the page
FilterSpec ==
    <<selected_languages, selected_qualifications, score_range, review_status, search_term>>

\* the step adds checked rows of the page to the ReviewSet: a Mark
MarkStep ==
    /\ rendered /\ uploaded_file' = uploaded_file /\ FilterSpec' = FilterSpec
    /\ reviewed_items \subseteq reviewed_items'
    /\ (reviewed_items' \ reviewed_items) \subseteq PageIds
\* the step takes checked rows of the page out of the ReviewSet: an Unmark
UnmarkStep ==
    /\ rendered /\ uploaded_file' = uploaded_file /\ FilterSpec' = FilterSpec
    /\ reviewed_items' \subseteq reviewed_items
    /\ (reviewed_items \ reviewed_items') \subseteq PageIds
\* the step empties the ReviewSet with the file left in place: a Clear
ClearStep ==
    /\ uploaded_file' = uploaded_file /\ uploaded_file.kind # "bad"
    /\ reviewed_items' = {}

\* C15: the ReviewSet changes only in a Mark, an Unmark or a Clear, and the
\* table only when a file is read; so a step that changes a filter, the
\* page or the page size, or exports, leaves both as they were, and while
\* the table, the ReviewSet and the FilterSpec stay the same the view stays
\* the same.
C15_Frame ==
    [][ /\ reviewed_items' # reviewed_items => (MarkStep \/ UnmarkStep \/ ClearStep)
        /\ current_data' # current_data =>
              /\ uploaded_file'.kind = "csv" /\ uploaded_file' # uploaded_file
              /\ current_data' = uploaded_file'
              /\ "loaded" \in messages'
        /\ ( /\ uploaded_file' = uploaded_file
             /\ rendered /\ rendered'
             /\ (FilterSpec' # FilterSpec \/ page' # page \/ items_per_page' # items_per_page)
             /\ ~(MarkStep \/ UnmarkStep \/ ClearStep) )
           => (current_data' = current_data /\ reviewed_items' = reviewed_items)
        /\ ( /\ rendered /\ rendered'
             /\ current_data' = current_data /\ reviewed_items' = reviewed_items
             /\ FilterSpec' = FilterSpec )
           => filtered_df' = filtered_df ]_vars

\* C15 happens: with rows reviewed, the second page of the 'Reviewed' view
\* is on the page
C15_Witness ==
    /\ rendered /\ review_status = "Reviewed"
    /\ reviewed_items # {}
    /\ page = 2
    /\ Len(filtered_df) = Cardinality(reviewed_items)

\* C16: every identifier in the ReviewSet is the index of a row of the
\* table of the session (a file read later starts from no reviewed row), so
\* the reviewed count is at most the number of rows of the table.
C16_ReviewSetInTable ==
    /\ reviewed_items \subseteq Range(Index(CurrentDf))
    /\ Cardinality(reviewed_items) <= Len(current_data.rows)

\* the selections a user makes in the widgets of create_filters
UserSelections ==
    [langs : {{}, {EN}}, quals : {{}}, range : {<<300, 900>>, <<300, 300>>},
     status : ReviewStatuses, term : SearchTerms]

\* the manager holds a table that was loaded with a score column
ScoredTableLoaded ==
    dm_data \in {LoadData(t) : t \in {u \in Tables : HasCol(u, "score")}}

\* C17: for a table with a score column, the ReviewSet of the manager and
\* the same selections, filter_data called with the dictionary of
\* create_filters returns the rows the filter of the page shows, in the
\* same order.
C17_FilterDataMatchesPage ==
    ScoredTableLoaded =>
        \A u \in UserSelections :
            FilterData(dm_data, dm_reviewed_items,
                       CreateFilters(u.langs, u.quals, u.range, u.status, u.term)).index
              = AppFilter(dm_data, dm_reviewed_items,
                          u.langs, u.quals, u.range, u.status, u.term)

\* the page r has every filter at its default, and the view of the default
\* FilterSpec
DefaultPage(r) ==
    /\ r.selected_languages = {} /\ r.selected_qualifications = {}
    /\ r.score_range = SliderBounds(CurrentDf)
    /\ r.review_status = "All" /\ r.search_term = <<>>
    /\ r.filtered_df = AppFilter(CurrentDf, reviewed_items, {}, {},
                                 SliderBounds(CurrentDf), "All", <<>>)

\* C18: the page that a click on "Clear All Filters" leaves has every
\* filter at its default and shows the view of the default FilterSpec, with
\* the table and the ReviewSet as they were.
C18_ClearAllFiltersResets ==
    rendered =>
        \A kept \in BOOLEAN, ok \in SliderOutcomes(App, uploaded_file) :
            LET r == AfterClearAllFilters(kept, ok)
            IN  /\ r.current_data = current_data
                /\ r.reviewed_items = reviewed_items
                /\ r.rendered => DefaultPage(r)

====
